---- MODULE Spec2Model ----
(***************************************************************************)
(* Model of the two Hex blueprints: run_project.py (the trigger command)   *)
(* and check_run_status.py (the status-check command).                     *)
(*                                                                         *)
(* One invocation of a command is a sequence of steps separated by the     *)
(* HTTP exchanges with the vendor; the vendor's answers are inputs.  The   *)
(* artifact store outlives an invocation; everything else is reset when    *)
(* the next command starts.                                                *)
(***************************************************************************)
EXTENDS Integers, Sequences, FiniteSets, TLC

(***************************************************************************)
(* Bound of the model: the counters of requests and sleeps saturate here,  *)
(* so that a wait loop that never ends is a cycle of finitely many states. *)
(***************************************************************************)
MaxCount == 3

(***************************************************************************)
(* exit_codes.py.  Distinct non-zero values below 256, none of them an     *)
(* HTTP status and none the status 1 of an uncaught exception.             *)
(***************************************************************************)
EXIT_CODE_INVALID_PROJECT_ID == 101
EXIT_CODE_AUTHENTICATION_ERROR == 102
EXIT_CODE_BAD_REQUEST == 103
EXIT_CODE_EXCESSIVE_REQUESTS == 104
EXIT_CODE_HEX_SERVER_ERROR == 105
EXIT_CODE_UNKNOWN_ERROR == 106
EXIT_CODE_PENDING == 110
EXIT_CODE_RUNNING == 111
EXIT_CODE_ERRORED == 112
EXIT_CODE_COMPLETED == 113
EXIT_CODE_KILLED == 114
EXIT_CODE_UNABLE_TO_ALLOCATE_KERNEL == 115

(***************************************************************************)
(* Strings that the code inspects character by character are sequences of  *)
(* one-character strings.                                                  *)
(***************************************************************************)
ID_VALID ==
    <<"7","8","c","3","3","d","1","8","-","1","7","0","c","-","4","4","d","3","-","a","2","2","7","-","b","3","1","9","4","f","1","3","4","f","7","3">>
ID_UPPER ==
    <<"7","8","C","3","3","D","1","8","-","1","7","0","C","-","4","4","D","3","-","B","2","2","7","-","B","3","1","9","4","F","1","3","4","F","7","3">>
ID_PADDED ==
    <<" ","7","8","c","3","3","d","1","8","-","1","7","0","c","-","4","4","d","3","-","a","2","2","7","-","b","3","1","9","4","f","1","3","4","f","7","3","\n">>
ID_VERSION1 ==
    <<"7","8","c","3","3","d","1","8","-","1","7","0","c","-","1","4","d","3","-","a","2","2","7","-","b","3","1","9","4","f","1","3","4","f","7","3">>
ID_VARIANT_C ==
    <<"7","8","c","3","3","d","1","8","-","1","7","0","c","-","4","4","d","3","-","c","2","2","7","-","b","3","1","9","4","f","1","3","4","f","7","3">>
ID_NOT_HEX ==
    <<"7","8","c","3","3","d","1","8","-","1","7","0","c","-","4","4","d","3","-","a","2","2","7","-","b","3","1","9","4","f","1","3","4","g","7","3">>
ID_NOT_A_UUID ==
    <<"n","o","t","-","a","-","u","u","i","d">>

\* The --project-id values an invocation is started with.
ProjectIdArgs ==
    {ID_VALID, ID_UPPER, ID_PADDED, ID_VERSION1, ID_VARIANT_C, ID_NOT_HEX,
     ID_NOT_A_UUID}

\* The --wait-for-completion values (the default is "FALSE").
WaitArgs == {"FALSE", "TRUE", "true"}

\* The run ids the vendor hands out and the user passes.
RunIds == {<<"r", "1">>, <<"r", "2">>}

\* The --run-id values of the status check: not given, empty, or a run id,
\* possibly with whitespace around it.
NoArg == [t |-> "None"]
StrArg(s) == [t |-> "str", str |-> s]
RunIdArgs ==
    {NoArg, StrArg(<<>>), StrArg(<<" ", "r", "2", "\n">>)}
    \cup {StrArg(r) : r \in RunIds}

Whitespace == {" ", "\t", "\n", "\r"}
HexDigits ==
    {"0","1","2","3","4","5","6","7","8","9",
     "a","b","c","d","e","f","A","B","C","D","E","F"}

\* str.strip(): drops the leading and the trailing whitespace.
RECURSIVE lstrip(_)
lstrip(s) ==
    IF s # <<>> /\ Head(s) \in Whitespace THEN lstrip(Tail(s)) ELSE s

RECURSIVE rstrip(_)
rstrip(s) ==
    IF s # <<>> /\ s[Len(s)] \in Whitespace
    THEN rstrip(SubSeq(s, 1, Len(s) - 1))
    ELSE s

strip(s) == rstrip(lstrip(s))

\* A test of the flag that takes every spelling for TRUE.
upper_truthy(s) == "TRUE"

\* str.upper() on the values of --wait-for-completion.
upper(s) ==
    CASE s = "true" -> "TRUE"
      [] OTHER -> s

(***************************************************************************)
(* UUID_PATTERN.  The body of the pattern, ^ to just before $, on the      *)
(* first 36 characters.                                                    *)
(***************************************************************************)
UUID_PATTERN_body(s) ==
    /\ Len(s) >= 36
    /\ \A i \in 1..36 :
         CASE i \in {9, 14, 19, 24} -> s[i] = "-"
           [] i = 15 -> s[i] = "4"
           [] i = 20 -> s[i] \in {"8", "9", "A", "B", "a", "b"}
           [] OTHER -> s[i] \in HexDigits

\* pattern.match(s): $ matches at the end and before one final newline.
UUID_PATTERN_match(s) ==
    /\ UUID_PATTERN_body(s)
    /\ \/ Len(s) = 36
       \/ Len(s) = 37 /\ s[37] = "\n"

is_valid_uuid_always(uuid_str) == TRUE

is_valid_uuid(uuid_str) == UUID_PATTERN_match(uuid_str)

(***************************************************************************)
(* Python values.  Every value carries its type in t; a dict is a function *)
(* from its keys to strings.                                               *)
(***************************************************************************)
PyNone == [t |-> "None"]
PyInt(n) == [t |-> "int", int |-> n]
PyDict(d) == [t |-> "dict", dict |-> d]
PyList(n) == [t |-> "list", len |-> n]
HexResponse(status_code, response_json) ==
    [t |-> "HexResponse", status_code |-> status_code,
     response_json |-> response_json]

\* How a call ends otherwise: an exception, or SystemExit from sys.exit.
Raise(e) == [t |-> "raise", exc |-> e]
SysExit(code) == [t |-> "SystemExit", code |-> code]
IsRaise(v) == v.t = "raise"
IsSysExit(v) == v.t = "SystemExit"

EmptyDict == [k \in {} |-> ""]
UnknownReason == PyDict([reason |-> "unknown"])

(***************************************************************************)
(* What the vendor can answer.  An answer is a transport failure or an     *)
(* HTTP status with a body; NotJson is a body response.json() rejects.     *)
(***************************************************************************)
NotJson == [t |-> "notjson"]
TransportFailure == [kind |-> "transport"]
Http(status_code, body) ==
    [kind |-> "http", status_code |-> status_code, body |-> body]

ReasonBody == PyDict([traceId |-> "t-1", reason |-> "bad token"])
ErrorBodies ==
    {NotJson, PyNone, PyList(0), PyList(2), PyDict(EmptyDict),
     PyDict([traceId |-> "t-1"]), ReasonBody}

TriggerStatusCodes == {201, 401, 404, 422, 429, 500, 503}
RunHandleBody(run_id) ==
    PyDict([projectId |-> "p", runId |-> run_id, runUrl |-> "u",
            runStatusUrl |-> "s", traceId |-> "t-1"])
\* Any body may come with 201; an error status comes with an error body.
TriggerResponses ==
    {TransportFailure}
    \cup {Http(201, RunHandleBody(r)) : r \in RunIds}
    \cup {Http(c, b) : c \in TriggerStatusCodes, b \in ErrorBodies}

KnownStatuses ==
    {"PENDING", "RUNNING", "ERRORED", "COMPLETED", "KILLED",
     "UNABLE_TO_ALLOCATE_KERNEL"}
VendorStatuses == KnownStatuses \cup {"WEIRD_NEW_STATE"}
StatusCodes == {200, 401, 404, 429, 500, 503}
Snapshot(run_id, status, end_time) ==
    PyDict([runId |-> run_id, status |-> status, endTime |-> end_time])
\* The snapshots of a run: no end time yet, a finished run with its end
\* time, and one with no endTime key.
Snapshots(run_id) ==
    {Snapshot(run_id, s, "None") : s \in VendorStatuses}
    \cup {Snapshot(run_id, "COMPLETED", "t9"),
          PyDict([runId |-> run_id, status |-> "COMPLETED"])}
\* Any body may come with 200; an error status comes with an error body.
StatusResponses(run_id) ==
    {TransportFailure}
    \cup {Http(200, b) : b \in Snapshots(run_id)}
    \cup {Http(c, b) : c \in StatusCodes,
                       b \in {NotJson, PyNone, PyDict(EmptyDict), ReasonBody}}

\* response.json()
json(response) ==
    IF response.body = NotJson THEN Raise("JSONDecodeError") ELSE response.body

\* value[key] of Python
getitem(value, key) ==
    CASE value.t = "dict" ->
           IF key \in DOMAIN value.dict
           THEN [t |-> "str", str |-> value.dict[key]]
           ELSE Raise("KeyError")
      [] OTHER -> Raise("TypeError")

PyBool(b) == [t |-> "bool", bool |-> b]

\* len(value)
len(value) ==
    CASE value.t = "dict" -> PyInt(Cardinality(DOMAIN value.dict))
      [] value.t = "list" -> PyInt(value.len)
      [] OTHER -> Raise("TypeError")

\* 'reason' in value.keys()
reason_in_keys(value) ==
    IF value.t = "dict"
    THEN PyBool("reason" \in DOMAIN value.dict)
    ELSE Raise("AttributeError")

(***************************************************************************)
(* run_project.py                                                          *)
(***************************************************************************)
has_reason(response) ==
    LET n == len(response) IN
    IF IsRaise(n) THEN n
    ELSE IF ~(n.int > 0) THEN PyBool(FALSE)
    ELSE IF response.t = "None" THEN PyBool(FALSE)
    ELSE reason_in_keys(response)

handle_api_response(response) ==
    LET status_code == response.status_code
        response_json == json(response)
    IN  IF IsRaise(response_json) THEN response_json
        ELSE IF status_code = 201 THEN HexResponse(status_code, response_json)
        ELSE IF status_code \notin {401, 404, 422}
        THEN HexResponse(EXIT_CODE_UNKNOWN_ERROR, UnknownReason)
        ELSE LET r == has_reason(response_json) IN
             IF IsRaise(r) THEN r
             ELSE IF r.bool THEN HexResponse(status_code, response_json)
             ELSE HexResponse(EXIT_CODE_UNKNOWN_ERROR, UnknownReason)

\* run_project with a handler that reports a failed request as an unknown
\* error instead of leaving the process.
run_project_answer_unknown(response) ==
    IF response.kind = "transport"
    THEN HexResponse(EXIT_CODE_UNKNOWN_ERROR, UnknownReason)
    ELSE LET hex_response == handle_api_response(response) IN
         IF IsRaise(hex_response)
         THEN HexResponse(EXIT_CODE_UNKNOWN_ERROR, UnknownReason)
         ELSE IF /\ hex_response.status_code = 201
                 /\ IsRaise(getitem(hex_response.response_json, "runId"))
         THEN SysExit(EXIT_CODE_AUTHENTICATION_ERROR)
         ELSE hex_response

\* run_project from the answer to its POST on: the try block and its handler.
run_project_answer(response) ==
    IF response.kind = "transport"
    THEN SysExit(EXIT_CODE_AUTHENTICATION_ERROR)
    ELSE LET hex_response == handle_api_response(response) IN
         IF IsRaise(hex_response)
         THEN SysExit(EXIT_CODE_AUTHENTICATION_ERROR)
         ELSE IF /\ hex_response.status_code = 201
                 /\ IsRaise(getitem(hex_response.response_json, "runId"))
         THEN SysExit(EXIT_CODE_AUTHENTICATION_ERROR)
         ELSE hex_response

\* get_run_status from the answer to its GET on.
get_run_status_answer(response) ==
    IF response.kind = "transport"
    THEN PyInt(EXIT_CODE_AUTHENTICATION_ERROR)
    ELSE LET status_code == response.status_code
             response_json == json(response)
         IN  IF IsRaise(response_json)
             THEN PyInt(EXIT_CODE_AUTHENTICATION_ERROR)
             ELSE IF status_code = 200 THEN response_json
             ELSE PyInt(EXIT_CODE_UNKNOWN_ERROR)

\* status_messages with ERRORED given the code of RUNNING
status_messages_errored_running(status) ==
    CASE status = "COMPLETED" -> EXIT_CODE_COMPLETED
      [] status = "KILLED" -> EXIT_CODE_KILLED
      [] status = "PENDING" -> EXIT_CODE_PENDING
      [] status = "RUNNING" -> EXIT_CODE_RUNNING
      [] status = "UNABLE_TO_ALLOCATE_KERNEL" ->
           EXIT_CODE_UNABLE_TO_ALLOCATE_KERNEL
      [] status = "ERRORED" -> EXIT_CODE_RUNNING
      [] OTHER -> EXIT_CODE_UNKNOWN_ERROR

status_messages(status) ==
    CASE status = "COMPLETED" -> EXIT_CODE_COMPLETED
      [] status = "KILLED" -> EXIT_CODE_KILLED
      [] status = "PENDING" -> EXIT_CODE_PENDING
      [] status = "RUNNING" -> EXIT_CODE_RUNNING
      [] status = "UNABLE_TO_ALLOCATE_KERNEL" ->
           EXIT_CODE_UNABLE_TO_ALLOCATE_KERNEL
      [] status = "ERRORED" -> EXIT_CODE_ERRORED
      [] OTHER -> EXIT_CODE_UNKNOWN_ERROR

determine_run_status(run_response) ==
    LET status == getitem(run_response, "status")
        end_time == getitem(run_response, "endTime")
        run_id == getitem(run_response, "runId")
    IN  IF IsRaise(status) THEN status
        ELSE IF IsRaise(end_time) THEN end_time
        ELSE IF IsRaise(run_id) THEN run_id
        ELSE PyInt(status_messages(status.str))

(***************************************************************************)
(* check_run_status.py                                                     *)
(***************************************************************************)
\* get_run_status of the status check with the exit code of 401 on the
\* branch of 404.
check_get_run_status_answer_404(response) ==
    IF response.kind = "transport"
    THEN SysExit(EXIT_CODE_AUTHENTICATION_ERROR)
    ELSE LET status_code == response.status_code
             response_json == json(response)
         IN  IF IsRaise(response_json)
             THEN SysExit(EXIT_CODE_AUTHENTICATION_ERROR)
             ELSE CASE status_code = 404 ->
                         SysExit(EXIT_CODE_AUTHENTICATION_ERROR)
                    [] status_code = 429 -> SysExit(EXIT_CODE_EXCESSIVE_REQUESTS)
                    [] status_code = 401 ->
                         SysExit(EXIT_CODE_AUTHENTICATION_ERROR)
                    [] status_code = 500 -> SysExit(EXIT_CODE_HEX_SERVER_ERROR)
                    [] status_code = 200 -> response_json
                    [] OTHER -> SysExit(EXIT_CODE_UNKNOWN_ERROR)

check_get_run_status_answer(response) ==
    IF response.kind = "transport"
    THEN SysExit(EXIT_CODE_AUTHENTICATION_ERROR)
    ELSE LET status_code == response.status_code
             response_json == json(response)
         IN  IF IsRaise(response_json)
             THEN SysExit(EXIT_CODE_AUTHENTICATION_ERROR)
             ELSE CASE status_code = 404 -> SysExit(EXIT_CODE_BAD_REQUEST)
                    [] status_code = 429 -> SysExit(EXIT_CODE_EXCESSIVE_REQUESTS)
                    [] status_code = 401 ->
                         SysExit(EXIT_CODE_AUTHENTICATION_ERROR)
                    [] status_code = 500 -> SysExit(EXIT_CODE_HEX_SERVER_ERROR)
                    [] status_code = 200 -> response_json
                    [] OTHER -> SysExit(EXIT_CODE_UNKNOWN_ERROR)

check_status_code(status) ==
    CASE status = "PENDING" -> EXIT_CODE_PENDING
      [] status = "RUNNING" -> EXIT_CODE_RUNNING
      [] status = "ERRORED" -> EXIT_CODE_RUNNING
      [] status = "COMPLETED" -> EXIT_CODE_COMPLETED
      [] status = "KILLED" -> EXIT_CODE_KILLED
      [] status = "UNABLE_TO_ALLOCATE_KERNEL" ->
           EXIT_CODE_UNABLE_TO_ALLOCATE_KERNEL
      [] OTHER -> EXIT_CODE_UNKNOWN_ERROR

check_determine_run_status(run_response) ==
    LET status == getitem(run_response, "status")
        end_time == getitem(run_response, "endTime")
        run_id == getitem(run_response, "runId")
    IN  IF IsRaise(status) THEN status
        ELSE IF IsRaise(end_time) THEN end_time
        ELSE IF IsRaise(run_id) THEN run_id
        ELSE PyInt(check_status_code(status.str))

(***************************************************************************)
(* State                                                                   *)
(***************************************************************************)
VARIABLES
    cmd,                 \* the command running or last run
    pc,                  \* "idle", "post", "get", "sleep" or "done"
    wait_for_completion, \* args.wait_for_completion
    run_id_arg,          \* args.run_id of the status check
    project_id,          \* main's project_id
    trigger_run,         \* main's trigger_run, what run_project returned
    run_id,              \* main's run_id, Unbound until it is assigned
    status_exit_code,    \* main's status_exit_code
    ended,               \* how main ended
    exit_code,           \* the exit status of the process, -1 while it runs
    wire,                \* the requests sent by this invocation
    posts,               \* how many POSTs, up to MaxCount
    gets,                \* how many GETs, up to MaxCount
    sleeps,              \* how many sleeps, up to MaxCount
    store,               \* the pickles of the artifact store
    written,             \* what this invocation wrote to the artifact store
    trigger_answer,      \* the vendor's answer to the POST
    poll_answer,         \* the vendor's answer to the latest GET
    pending_polls,       \* how many GETs were answered PENDING or RUNNING
    created_run_id       \* the runId of the latest 201 answer to a trigger

vars ==
    <<cmd, pc, wait_for_completion, run_id_arg, project_id, trigger_run, run_id, status_exit_code,
      ended, exit_code, wire, posts, gets, sleeps, store, written,
      trigger_answer, poll_answer, pending_polls, created_run_id>>

Unbound == [t |-> "unbound"]
Absent == [t |-> "absent"]
Stored(v) == [t |-> "pickle", value |-> v]
NoAnswer == [kind |-> "none"]
Running == [t |-> "running"]
Return(v) == [t |-> "return", value |-> v]

\* A counter that stops at MaxCount.
Inc(n) == IF n < MaxCount THEN n + 1 ELSE n

\* A status request whose path names the project in the place of the run.
GetRequest_project(pid, rid) ==
    [method |-> "GET", project_id |-> pid, run_id |-> pid]

PostRequest(pid) == [method |-> "POST", project_id |-> pid, run_id |-> <<>>]
GetRequest(pid, rid) == [method |-> "GET", project_id |-> pid, run_id |-> rid]

(***************************************************************************)
(* The exit status of the process.  Both scripts end in a bare main(): a   *)
(* return from main, whatever it returns, ends the process with 0; an      *)
(* uncaught exception with 1; sys.exit(n) with n.                          *)
(***************************************************************************)
process_exit(how) ==
    CASE how.t = "SystemExit" -> how.code
      [] how.t = "raise" -> 1
      [] OTHER -> 0

End(how) ==
    /\ pc' = "done"
    /\ ended' = how
    /\ exit_code' = process_exit(how)

Init ==
    /\ cmd = "none"
    /\ pc = "idle"
    /\ wait_for_completion = "FALSE"
    /\ run_id_arg = NoArg
    /\ project_id = <<>>
    /\ trigger_run = Unbound
    /\ run_id = Unbound
    /\ status_exit_code = Unbound
    /\ ended = Running
    /\ exit_code = -1
    /\ wire = {}
    /\ posts = 0
    /\ gets = 0
    /\ sleeps = 0
    /\ store = [runId |-> Absent, reason |-> Absent]
    /\ written = {}
    /\ trigger_answer = NoAnswer
    /\ poll_answer = NoAnswer
    /\ pending_polls = 0
    /\ created_run_id = Absent

\* A new process: nothing is left of the previous one but the store.
Fresh(command, pid) ==
    /\ pc \in {"idle", "done"}
    /\ cmd' = command
    /\ project_id' = pid
    /\ status_exit_code' = Unbound
    /\ sleeps' = 0
    /\ written' = {}
    /\ trigger_answer' = NoAnswer
    /\ poll_answer' = NoAnswer
    /\ pending_polls' = 0

\* What a function returns when it goes on to its HTTP request.
Proceed == [t |-> "request"]

\* trigger_run.status_code, of whatever run_project returned
getattr_status_code(value) ==
    IF value.t = "HexResponse"
    THEN PyInt(value.status_code)
    ELSE Raise("AttributeError")

\* run_project and get_run_status up to their request: the identifier check.
run_project_validate(pid) ==
    IF ~is_valid_uuid(pid)
    THEN PyInt(EXIT_CODE_INVALID_PROJECT_ID)
    ELSE Proceed

get_run_status_validate(pid) ==
    IF ~is_valid_uuid(pid)
    THEN PyInt(EXIT_CODE_INVALID_PROJECT_ID)
    ELSE Proceed

(***************************************************************************)
(* run_project.py: main                                                    *)
(***************************************************************************)

\* get_run_status(project_id, api_token, run_id) up to its GET; when the
\* identifier check fails, determine_run_status gets the int it returned.
SendGet(pid, rid) ==
    LET early == get_run_status_validate(pid) IN
    IF early.t = "int"
    THEN /\ End(determine_run_status(early))
         /\ UNCHANGED <<wire, gets>>
    ELSE /\ pc' = "get"
         /\ wire' = wire \cup {GetRequest(pid, rid)}
         /\ gets' = Inc(gets)
         /\ UNCHANGED <<ended, exit_code>>

\* The command starts: the arguments, and run_project up to its POST.
main_start(pid_arg, wait_arg) ==
    LET pid == strip(pid_arg)
        early == run_project_validate(pid)
    IN  /\ Fresh("run_project", pid)
        /\ wait_for_completion' = wait_arg
        /\ run_id_arg' = NoArg
        /\ run_id' = Unbound
        /\ gets' = 0
        /\ UNCHANGED <<store, created_run_id>>
        /\ IF early.t = "int"
           THEN /\ trigger_run' = early
                /\ End(getattr_status_code(early))
                /\ wire' = {}
                /\ posts' = 0
           ELSE /\ trigger_run' = Unbound
                /\ pc' = "post"
                /\ ended' = Running
                /\ exit_code' = -1
                /\ wire' = {PostRequest(pid)}
                /\ posts' = 1

\* The POST is answered: the rest of run_project, the artifacts, and the
\* first get_run_status up to its GET when the wait is asked for.
main_trigger_answer(response) ==
    /\ cmd = "run_project"
    /\ pc = "post"
    /\ trigger_answer' = response
    /\ UNCHANGED <<cmd, wait_for_completion, run_id_arg, project_id,
                   status_exit_code, posts, sleeps, poll_answer, pending_polls>>
    /\ created_run_id' =
         IF /\ response.kind = "http"
            /\ response.status_code = 201
            /\ response.body.t = "dict"
            /\ "runId" \in DOMAIN response.body.dict
         THEN Stored(response.body.dict.runId)
         ELSE created_run_id
    /\ LET returned == run_project_answer(response) IN
       IF IsSysExit(returned)
       THEN /\ End(returned)
            /\ UNCHANGED <<trigger_run, run_id, store, written, wire, gets>>
       ELSE LET status_code == returned.status_code
                response_json == returned.response_json
            IN  /\ trigger_run' = returned
                /\ IF status_code = 201
                   THEN /\ run_id' = getitem(response_json, "runId")
                        /\ store' = [store EXCEPT !.runId = Stored(run_id'.str)]
                        /\ written' = written \cup {"runId", "run_response"}
                   ELSE /\ run_id' = run_id
                        /\ store' =
                             [store EXCEPT
                                !.reason =
                                  Stored(getitem(response_json, "reason").str)]
                        /\ written' = written \cup {"reason"}
                /\ IF upper(wait_for_completion) = "TRUE"
                   THEN IF run_id'.t = "unbound"
                        THEN /\ End(Raise("UnboundLocalError"))
                             /\ UNCHANGED <<wire, gets>>
                        ELSE SendGet(project_id, run_id'.str)
                   ELSE /\ End(Return(PyNone))
                        /\ UNCHANGED <<wire, gets>>

\* A GET of the wait is answered: the rest of get_run_status,
\* determine_run_status and the test of the loop.
main_poll_answer(response) ==
    /\ cmd = "run_project"
    /\ pc = "get"
    /\ poll_answer' = response
    /\ UNCHANGED <<cmd, wait_for_completion, run_id_arg, project_id,
                   trigger_run, run_id, wire, posts, gets, sleeps, store,
                   written, trigger_answer, created_run_id>>
    /\ LET run_response == get_run_status_answer(response)
           code == determine_run_status(run_response)
       IN  IF IsRaise(code)
           THEN /\ End(code)
                /\ UNCHANGED <<status_exit_code, pending_polls>>
           ELSE /\ status_exit_code' = code
                /\ IF code.int \in {EXIT_CODE_RUNNING, EXIT_CODE_PENDING}
                   THEN /\ pc' = "sleep"
                        /\ pending_polls' = Inc(pending_polls)
                        /\ UNCHANGED <<ended, exit_code>>
                   ELSE /\ End(Return(code))
                        /\ UNCHANGED pending_polls

\* time.sleep(60), then get_run_status again up to its GET.
main_sleep ==
    /\ cmd = "run_project"
    /\ pc = "sleep"
    /\ sleeps' = Inc(sleeps)
    /\ SendGet(project_id, run_id.str)
    /\ UNCHANGED <<cmd, wait_for_completion, run_id_arg, project_id,
                   trigger_run, run_id, status_exit_code, posts, store,
                   written, trigger_answer, poll_answer, pending_polls,
                   created_run_id>>

(***************************************************************************)
(* check_run_status.py: main                                               *)
(***************************************************************************)

\* shipyard.logs.read_pickle_file(artifact_subfolder_paths, 'runId')
read_pickle_file(pickle) ==
    IF pickle.t = "pickle"
    THEN [t |-> "str", str |-> pickle.value]
    ELSE Raise("FileNotFoundError")

\* A run id taken from the pickle whatever --run-id says.
check_run_id_pickle(rid_arg) == read_pickle_file(store.runId)

\* main's run_id: --run-id when it is given and not empty, else the pickle.
check_run_id(rid_arg) ==
    IF rid_arg.t = "str" /\ rid_arg.str # <<>>
    THEN [t |-> "str", str |-> strip(rid_arg.str)]
    ELSE read_pickle_file(store.runId)

\* get_run_status up to its request: sys.exit on a malformed project id.
check_get_run_status_validate(pid) ==
    IF ~UUID_PATTERN_match(pid)
    THEN SysExit(EXIT_CODE_INVALID_PROJECT_ID)
    ELSE Proceed

\* The command starts: the arguments, the run id, get_run_status up to its GET.
check_main_start(pid_arg, rid_arg) ==
    LET pid == strip(pid_arg)
        rid == check_run_id(rid_arg)
        early == check_get_run_status_validate(pid)
    IN  /\ Fresh("check_run_status", pid)
        /\ wait_for_completion' = "FALSE"
        /\ run_id_arg' = rid_arg
        /\ trigger_run' = Unbound
        /\ posts' = 0
        /\ UNCHANGED <<store, created_run_id>>
        /\ IF IsRaise(rid)
           THEN /\ End(rid)
                /\ run_id' = Unbound
                /\ wire' = {}
                /\ gets' = 0
           ELSE /\ run_id' = rid
                /\ IF IsSysExit(early)
                   THEN /\ End(early)
                        /\ wire' = {}
                        /\ gets' = 0
                   ELSE /\ pc' = "get"
                        /\ ended' = Running
                        /\ exit_code' = -1
                        /\ wire' = {GetRequest(pid, rid.str)}
                        /\ gets' = 1

\* The GET is answered: the rest of get_run_status, determine_run_status,
\* the status artifact and sys.exit.
check_main_answer(response) ==
    /\ cmd = "check_run_status"
    /\ pc = "get"
    /\ poll_answer' = response
    /\ UNCHANGED <<cmd, wait_for_completion, run_id_arg, project_id,
                   trigger_run, run_id, wire, posts, gets, sleeps, store,
                   trigger_answer, pending_polls, created_run_id>>
    /\ LET run_response == check_get_run_status_answer(response) IN
       IF IsSysExit(run_response)
       THEN /\ End(run_response)
            /\ UNCHANGED <<status_exit_code, written>>
       ELSE LET code == check_determine_run_status(run_response) IN
            IF IsRaise(code)
            THEN /\ End(code)
                 /\ UNCHANGED <<status_exit_code, written>>
            ELSE /\ status_exit_code' = code
                 /\ written' = written \cup {"status_response"}
                 /\ End(SysExit(code.int))

(***************************************************************************)
(* Specification                                                           *)
(***************************************************************************)
StartTrigger == \E p \in ProjectIdArgs, w \in WaitArgs : main_start(p, w)
TriggerAnswered == \E r \in TriggerResponses : main_trigger_answer(r)
PollAnswered ==
    /\ pc = "get"
    /\ \E r \in StatusResponses(run_id.str) : main_poll_answer(r)
Slept == main_sleep
StartCheck == \E p \in ProjectIdArgs, r \in RunIdArgs : check_main_start(p, r)
CheckAnswered ==
    /\ pc = "get"
    /\ \E r \in StatusResponses(run_id.str) : check_main_answer(r)

Next ==
    \/ StartTrigger
    \/ TriggerAnswered
    \/ PollAnswered
    \/ Slept
    \/ StartCheck
    \/ CheckAnswered

Spec == Init /\ [][Next]_vars

(***************************************************************************)
(* The vocabulary of the specification, written from its text and not from *)
(* the code, for the properties below.                                     *)
(***************************************************************************)

\* The UUID v4 pattern xxxxxxxx-xxxx-4xxx-{8,9,A,B,a,b}xxx-xxxxxxxxxxxx.
MatchesUuidV4(s) ==
    /\ Len(s) = 36
    /\ \A i \in {9, 14, 19, 24} : s[i] = "-"
    /\ s[15] = "4"
    /\ s[20] \in {"8", "9", "A", "B", "a", "b"}
    /\ \A i \in (1..36) \ {9, 14, 19, 24} : s[i] \in HexDigits

\* The answer is an HTTP answer with a JSON body.
IsJsonAnswer(a) == a.kind = "http" /\ a.body.t # "notjson"

\* The answer to a status request is a Success with a whole snapshot.
IsSnapshotAnswer(a) ==
    /\ a.kind = "http"
    /\ a.status_code = 200
    /\ a.body.t = "dict"
    /\ {"status", "endTime", "runId"} \subseteq DOMAIN a.body.dict

\* The run status of a snapshot: a member of the closed set, or UNKNOWN.
RunStatusOf(status) == IF status \in KnownStatuses THEN status ELSE "UNKNOWN"
AnswerStatus(a) == RunStatusOf(a.body.dict.status)
IsNonTerminalAnswer(a) ==
    IsSnapshotAnswer(a) /\ AnswerStatus(a) \in {"PENDING", "RUNNING"}
IsTerminalAnswer(a) ==
    IsSnapshotAnswer(a) /\ AnswerStatus(a) \notin {"PENDING", "RUNNING"}

\* toExitCode on the run statuses.
RunStatusExitCode(status) ==
    CASE status = "PENDING" -> EXIT_CODE_PENDING
      [] status = "RUNNING" -> EXIT_CODE_RUNNING
      [] status = "ERRORED" -> EXIT_CODE_ERRORED
      [] status = "COMPLETED" -> EXIT_CODE_COMPLETED
      [] status = "KILLED" -> EXIT_CODE_KILLED
      [] status = "UNABLE_TO_ALLOCATE_KERNEL" ->
           EXIT_CODE_UNABLE_TO_ALLOCATE_KERNEL
      [] OTHER -> EXIT_CODE_UNKNOWN_ERROR

\* classify: the outcome of an HTTP status on the trigger endpoint.
OutcomeOf(http_status) ==
    CASE http_status = 201 -> "Success"
      [] http_status = 401 -> "Unauthorized"
      [] http_status = 404 -> "NotFound"
      [] http_status = 422 -> "Unprocessable"
      [] http_status = 429 -> "RateLimited"
      [] http_status = 500 -> "ServerError"
      [] OTHER -> "Unknown"

\* toExitCode on the outcomes that have an exit code.
OutcomeExitCode(outcome) ==
    CASE outcome = "Unauthorized" -> EXIT_CODE_AUTHENTICATION_ERROR
      [] outcome = "NotFound" -> EXIT_CODE_BAD_REQUEST
      [] outcome = "RateLimited" -> EXIT_CODE_EXCESSIVE_REQUESTS
      [] outcome = "ServerError" -> EXIT_CODE_HEX_SERVER_ERROR
      [] OTHER -> EXIT_CODE_UNKNOWN_ERROR

\* The outcome a HexResponse stands for: it carries the HTTP status of the
\* outcomes it tells apart and EXIT_CODE_UNKNOWN_ERROR for Unknown.
KindOf(hex_response) ==
    IF hex_response.status_code = EXIT_CODE_UNKNOWN_ERROR
    THEN "Unknown"
    ELSE OutcomeOf(hex_response.status_code)

Waited == cmd = "run_project" /\ upper(wait_for_completion) = "TRUE"
TriggerSucceeded ==
    /\ cmd = "run_project"
    /\ trigger_run.t = "HexResponse"
    /\ trigger_run.status_code = 201

(***************************************************************************)
(* The wait under fairness.  The process goes on: a sleep ends and the     *)
(* next GET is sent, and a GET is answered.  The vendor is fair: when it   *)
(* is polled again and again, it answers some poll with something other    *)
(* than a PENDING or RUNNING snapshot.                                     *)
(***************************************************************************)
PollAnsweredFinally ==
    /\ pc = "get"
    /\ \E r \in StatusResponses(run_id.str) :
         /\ ~IsNonTerminalAnswer(r)
         /\ main_poll_answer(r)

FairSpec ==
    /\ Spec
    /\ WF_vars(Slept)
    /\ WF_vars(PollAnswered)
    /\ SF_vars(PollAnsweredFinally)

\* The process goes on, and the vendor may answer RUNNING for ever.
UnfairVendorSpec ==
    /\ Spec
    /\ WF_vars(Slept)
    /\ WF_vars(PollAnswered)

(***************************************************************************)
(* Properties                                                              *)
(***************************************************************************)

\* C1: a wait that ends on a terminal status slept once for each PENDING or
\* RUNNING poll before it, and the process exits with the code of that
\* terminal status.
C1_ExitCodeOfTerminalStatus ==
    (Waited /\ TriggerSucceeded /\ pc = "done" /\ IsTerminalAnswer(poll_answer))
        => /\ sleeps = pending_polls
           /\ exit_code = RunStatusExitCode(AnswerStatus(poll_answer))

\* C2: a poll of the wait that is answered with an HTTP error ends the wait
\* at once, and the process exits with the code of that outcome.
C2_ExitCodeOfFailedPoll ==
    (Waited /\ TriggerSucceeded /\ IsJsonAnswer(poll_answer)
       /\ poll_answer.status_code \in {401, 404, 429, 500})
        => /\ pc = "done"
           /\ exit_code = OutcomeExitCode(OutcomeOf(poll_answer.status_code))

\* C3: a trigger that fails ends the invocation with the exit code of its
\* outcome, and no status request is sent, with or without the wait.
C3_ExitCodeOfFailedTrigger ==
    (cmd = "run_project" /\ IsJsonAnswer(trigger_answer)
       /\ trigger_answer.status_code \in {401, 404, 429, 500})
        => /\ pc = "done"
           /\ gets = 0
           /\ exit_code = OutcomeExitCode(OutcomeOf(trigger_answer.status_code))

\* C4: every request sent, by either command, carries a project id that
\* matches the UUID v4 pattern.
C4_ValidatedBeforeRequest == \A r \in wire : MatchesUuidV4(r.project_id)

\* C4, witness: the trigger command has sent its POST and a GET of the wait.
C4_Witness ==
    /\ cmd = "run_project"
    /\ \E r \in wire : r.method = "POST"
    /\ \E r \in wire : r.method = "GET"

\* C5: a trigger invocation with a malformed project id sends no request and
\* exits with the code of the invalid identifier.
C5_ExitCodeOfInvalidId ==
    (cmd = "run_project" /\ pc = "done" /\ ~MatchesUuidV4(project_id))
        => /\ wire = {}
           /\ exit_code = EXIT_CODE_INVALID_PROJECT_ID

\* C6: a poll answered with a status outside the closed set is UNKNOWN, ends
\* the wait, and the process exits with the code of UNKNOWN.
C6_ExitCodeOfUnknownStatus ==
    (Waited /\ IsSnapshotAnswer(poll_answer)
       /\ AnswerStatus(poll_answer) = "UNKNOWN")
        => /\ pc = "done"
           /\ status_exit_code = PyInt(EXIT_CODE_UNKNOWN_ERROR)
           /\ exit_code = EXIT_CODE_UNKNOWN_ERROR

InWait == cmd = "run_project" /\ pc \in {"get", "sleep"}

\* C7: under the fair vendor the wait ends, and it never ends on a PENDING
\* or RUNNING snapshot: after such an answer the loop sleeps and polls again.
C7_WaitTerminates ==
    /\ InWait ~> (pc = "done")
    /\ [](cmd = "run_project" /\ IsNonTerminalAnswer(poll_answer)
            => pc \in {"sleep", "get"})

\* C7, witness: the wait has slept and polled again, and then ended.
C7_Witness ==
    /\ cmd = "run_project"
    /\ pc = "done"
    /\ sleeps >= 2
    /\ poll_answer # NoAnswer

\* The wait ends without any assumption on the vendor (it does not).
WaitAlwaysTerminates == InWait ~> (pc = "done")

\* The code an entry point gives a status.
CodeFor(command, status) ==
    IF command = "run_project"
    THEN status_messages(status)
    ELSE check_status_code(status)

\* C8: in both commands the exit code computed for a status tells which of
\* the seven run statuses it was.
C8_StatusCodesInjective ==
    (pc = "done" /\ IsSnapshotAnswer(poll_answer)
       /\ status_exit_code.t = "int")
        => \A s \in VendorStatuses :
             CodeFor(cmd, s) = status_exit_code.int
                 => RunStatusOf(s) = AnswerStatus(poll_answer)

\* C9: the trigger response is classified by its HTTP status alone: 201,
\* 401, 404, 422, 429 and 500 each have their outcome, the rest is Unknown.
C9_TriggerClassification ==
    (cmd = "run_project" /\ trigger_run.t = "HexResponse"
       /\ trigger_answer.body \in {ReasonBody} \cup {RunHandleBody(r) : r \in RunIds})
        => KindOf(trigger_run) = OutcomeOf(trigger_answer.status_code)

\* The reason of a JSON body: its reason, or "unknown".
ReasonOf(body) ==
    IF body.t = "dict" /\ "reason" \in DOMAIN body.dict
    THEN body.dict.reason
    ELSE "unknown"

\* C10: a failed trigger keeps the outcome of its HTTP status and carries
\* the reason of the body, or "unknown" when the body has none.
C10_ReasonOfFailedTrigger ==
    (cmd = "run_project" /\ trigger_run.t = "HexResponse"
       /\ trigger_answer.status_code # 201)
        => /\ trigger_run.response_json.dict.reason
                = ReasonOf(trigger_answer.body)
           /\ KindOf(trigger_run) = OutcomeOf(trigger_answer.status_code)

\* The answer is a transport-level failure: no HTTP answer at all, or one
\* whose body is not JSON.
IsTransportFailure(a) ==
    \/ a.kind = "transport"
    \/ a.kind = "http" /\ a.body.t = "notjson"

\* C11: an invocation whose request met a transport-level failure ends with
\* an exit code of its own: not the one an HTTP 401 answer to the same
\* request gives, and not the Unknown one.
C11_TransportFailureOwnCode ==
    /\ (cmd = "check_run_status" /\ pc = "done"
          /\ IsTransportFailure(poll_answer))
         => exit_code \notin
              {process_exit(check_get_run_status_answer(Http(401, ReasonBody))),
               process_exit(check_get_run_status_answer(Http(503, ReasonBody)))}
    /\ (cmd = "run_project" /\ pc = "done"
          /\ (IsTransportFailure(trigger_answer)
                \/ IsTransportFailure(poll_answer)))
         => exit_code \notin
              {EXIT_CODE_AUTHENTICATION_ERROR, EXIT_CODE_UNKNOWN_ERROR}

\* The trigger was answered 201 with a run handle: a JSON object with a runId.
IsRunHandleAnswer(a) ==
    /\ a.kind = "http"
    /\ a.status_code = 201
    /\ a.body.t = "dict"
    /\ "runId" \in DOMAIN a.body.dict

\* The trigger was answered by a failure status with a JSON body on which the
\* classification does not fail: an object or an empty array for 401, 404
\* and 422, any JSON body for another status.
IsClassifiedFailure(a) ==
    /\ IsJsonAnswer(a)
    /\ a.status_code # 201
    /\ a.status_code \in {401, 404, 422}
         => \/ a.body.t = "dict"
            \/ a.body.t = "list" /\ a.body.len = 0

TriggerAnswerSeen == cmd = "run_project" /\ trigger_answer # NoAnswer

WaitRequested == wait_for_completion \in {"TRUE", "True", "true"}

IsGet(r) == r.method = "GET"
IsPost(r) == r.method = "POST"

\* C13 as it is stated: every trigger invocation makes exactly one POST, and
\* no GET when the wait is not asked for.
C13_ExactlyOnePost ==
    cmd = "run_project" =>
        /\ posts = 1
        /\ ~WaitRequested => gets = 0

\* The requests of a trigger invocation so far: one POST exactly when the
\* project id is valid and none otherwise; GETs only after a POST that was
\* answered with a run handle, and only when the wait is asked for.
RequestsInOrder ==
    cmd = "run_project" =>
        /\ posts = IF MatchesUuidV4(project_id) THEN 1 ELSE 0
        /\ Cardinality({r \in wire : IsPost(r)}) = posts
        /\ (gets > 0 \/ \E r \in wire : IsGet(r))
             => /\ posts = 1
                /\ WaitRequested
                /\ IsRunHandleAnswer(trigger_answer)
        /\ ~WaitRequested => gets = 0

\* A step of a trigger invocation that sends the POST starts the invocation,
\* and one that sends a GET follows the answer to the POST or a sleep: the
\* POST is not sent again and nothing is sent once the process has ended.
RequestSentInTurn ==
    cmd' = "run_project" =>
        /\ pc' = "post" => pc \in {"idle", "done"}
        /\ pc' = "get" => cmd = "run_project" /\ pc \in {"post", "sleep"}
        /\ wire' # wire => pc' \in {"post", "get"} \/ wire' = {}
        /\ (pc = "done" /\ pc' = "done") => (wire' = wire \/ wire' = {})

\* C13, amended: a trigger invocation makes at most one POST, exactly one
\* when the project id is valid and none otherwise, never sent again,
\* followed by zero or more GETs; no GET when the wait is not asked for; no
\* request once the invocation has ended.
C13_RequestSequence == []RequestsInOrder /\ [][RequestSentInTurn]_vars

\* An invocation that has ended after one POST, two GETs and a sleep.
C13_Witness ==
    /\ cmd = "run_project"
    /\ pc = "done"
    /\ posts = 1
    /\ gets = 2
    /\ sleeps = 1
    /\ Cardinality(wire) = 2

\* --run-id is supplied: it is given and is not the empty string.
RunIdSupplied == run_id_arg.t = "str" /\ run_id_arg.str # <<>>

\* C14: the status request of a status check carries the run id of --run-id
\* (without the white space around it) when it is supplied, and otherwise
\* the runId of the latest 201 answer to a trigger, which is what the store
\* holds under runId.
C14_Handoff ==
    /\ created_run_id = store.runId
    /\ cmd = "check_run_status" =>
         \A r \in wire :
            /\ IsGet(r)
            /\ IF RunIdSupplied
               THEN r.run_id = strip(run_id_arg.str)
               ELSE /\ created_run_id # Absent
                    /\ r.run_id = created_run_id.value

\* A status check without --run-id asks for the run a trigger created.
C14_Witness ==
    /\ cmd = "check_run_status"
    /\ run_id_arg = NoArg
    /\ created_run_id = Stored(<<"r", "2">>)
    /\ wire = {GetRequest(project_id, <<"r", "2">>)}
    /\ pc = "done"

\* The status request of a status check was answered by an API-level error:
\* an HTTP status other than 200 with a JSON body.
CheckApiError ==
    /\ cmd = "check_run_status"
    /\ poll_answer # NoAnswer
    /\ IsJsonAnswer(poll_answer)
    /\ poll_answer.status_code # 200

\* C15: an API-level error on the status request of a status check ends the
\* invocation at once, after its one GET and with no sleep, by sys.exit with
\* the exit code of its outcome; two statuses of different outcomes never end
\* with one exit code.
C15_ApiErrorsSurfaced ==
    CheckApiError =>
        LET outcome == OutcomeOf(poll_answer.status_code) IN
        /\ pc = "done"
        /\ gets = 1
        /\ sleeps = 0
        /\ ended = SysExit(OutcomeExitCode(outcome))
        /\ exit_code = OutcomeExitCode(outcome)
        /\ \A c \in StatusCodes \ {200} :
              OutcomeOf(c) # outcome
                => process_exit(
                     check_get_run_status_answer(Http(c, ReasonBody)))
                     # exit_code

\* A status check that was answered 404 has ended with the NotFound code.
C15_Witness ==
    /\ CheckApiError
    /\ poll_answer = Http(404, ReasonBody)
    /\ pc = "done"
    /\ exit_code = EXIT_CODE_BAD_REQUEST

\* C16: a status check makes at most one GET and never sleeps; it writes the
\* status response only after a 200 answer with a snapshot, and then ends
\* with the exit code of the status the snapshot reports.
C16_SingleShot ==
    cmd = "check_run_status" =>
        /\ gets <= 1
        /\ sleeps = 0
        /\ written \subseteq {"status_response"}
        /\ "status_response" \in written
             => /\ poll_answer # NoAnswer
                /\ IsSnapshotAnswer(poll_answer)
        /\ (poll_answer # NoAnswer /\ IsSnapshotAnswer(poll_answer))
             => /\ pc = "done"
                /\ "status_response" \in written
                /\ ended = SysExit(exit_code)
                /\ exit_code = RunStatusExitCode(AnswerStatus(poll_answer))

\* Every status request a trigger invocation has made is for its project id
\* and for the runId of the 201 answer to its POST, which run_id holds.
PollsTargetCreatedRun ==
    cmd = "run_project" =>
        \A r \in wire :
            IsGet(r)
              => /\ IsRunHandleAnswer(trigger_answer)
                 /\ r.project_id = project_id
                 /\ r.run_id = trigger_answer.body.dict.runId
                 /\ run_id = [t |-> "str", str |-> r.run_id]

\* A step of the wait (the answer to a poll, a sleep with the next poll)
\* leaves the run id and the project id as they are.
WaitKeepsRunId ==
    (cmd = "run_project" /\ pc \in {"get", "sleep"})
        => /\ run_id' = run_id
           /\ project_id' = project_id
           /\ trigger_answer' = trigger_answer

\* C17: within one trigger invocation every status poll targets the same
\* project id and the same run id, the runId of the trigger's 201 response:
\* the run id is bound before the first poll and no poll, sleep or snapshot
\* changes it.
C17_SamePollTarget == []PollsTargetCreatedRun /\ [][WaitKeepsRunId]_vars

\* The third poll of a wait asks for the run the trigger created.
C17_Witness ==
    /\ cmd = "run_project"
    /\ pc = "get"
    /\ gets = 3
    /\ sleeps = 2
    /\ IsRunHandleAnswer(trigger_answer)
    /\ wire = {PostRequest(project_id),
               GetRequest(project_id, trigger_answer.body.dict.runId)}

====
